---- MODULE Spec2Model ----
(***************************************************************************)
(* Model of asana_overdue_flagger.py: the rate-limit absorbing access      *)
(* layer (api_get / api_post / api_delete), the paged listings, the        *)
(* overdue predicate on subtasks and the reconciliation loop of main().    *)
(* The Asana server is the environment: it answers every transmitted       *)
(* request with 429, an error, or 200 and the data it holds.               *)
(***************************************************************************)
EXTENDS Integers, Sequences, FiniteSets, TLC

\* ------------------------------------------------------------------ bounds
NTasks == 2      \* tasks in the project listing, at most
MaxSubs == 2     \* subtasks of one parent, at most
Max429 == 2      \* consecutive 429 answers to one request, at most
PageSize == 1    \* records the server puts on one page of a listing
MaxDay == 2      \* calendar days 0..MaxDay; instants are the half-days of these days
MaxOffset == 1   \* local time minus UTC ranges over -MaxOffset..MaxOffset half-days

\* --------------------------------------------------------------- constants
DefaultRetryAfter == 5

TagName == "Overdue"

\* ------------------------------------------------------------------- state
VARIABLES
    DRY_RUN,        \* the process-wide toggle, read from the environment once
    now,            \* the current instant (UTC), in half-days
    offset,         \* local time minus UTC, in half-days
    pc,             \* position of main(): the call it waits for, done, aborted
    error,          \* the exception that ended the run, "none" while running
    call,           \* the api_* invocation in progress: method, url, params, body
    phase,          \* "idle" | "inflight" | "returned"
    n429,           \* 429 answers received by the invocation in progress
    sleeps,         \* time.sleep calls made by the invocation in progress
    sent,           \* transmissions made by the invocation in progress
    slept,          \* duration of its last sleep, in seconds
    wire,           \* the request as last put on the wire
    results,        \* results the invocation in progress has returned
    resp,           \* parsed body the invocation returned
    tag_gid,        \* main's tag_gid: [some, gid]
    tasks,          \* main's tasks: gids in listing order
    idx,            \* position of the for loop in tasks
    subs,           \* main's subtasks of the current task
    overdue_found,  \* main's overdue_found
    current_tags,   \* main's current_tags: sequence of [name, gid], last wins
    changed,        \* main's changed counter
    run,            \* number of the run of main() in progress
    wsTags,         \* server: tags of the workspace, [known, v]
    taskTags,       \* server: tags of each task, [known, v]
    subsOf,         \* server: subtasks of each task, [known, v]
    projectTasks,   \* server: gids of the project's tasks, in listing order
    serving,        \* server: the listing a page walk is reading
    cur             \* history of the current task's iteration

apiVars == <<call, phase, n429, sleeps, sent, slept, wire, results, resp>>
clockVars == <<DRY_RUN, now, offset>>
mainVars == <<tag_gid, tasks, idx, subs, overdue_found, current_tags, changed, run>>
serverVars == <<wsTags, taskTags, subsOf, projectTasks, serving>>
vars == <<clockVars, pc, error, apiVars, mainVars, serverVars, cur>>

\* --------------------------------------------------------------- due values
\* A due_on string: absent, a well-formed YYYY-MM-DD date, or anything else.
DueOnValue(kind, day) == [kind |-> kind, day |-> day]
\* A due_at string: absent, ISO-8601 (with or without a UTC offset), a string
\* only dateutil's lenient parser reads (with or without a zone), or garbage.
DueAtValue(kind, tz, t) == [kind |-> kind, tz |-> tz, t |-> t]

NoDueOn == DueOnValue("none", 0)
NoDueAt == DueAtValue("none", FALSE, 0)

DayOf(t) == t \div 2

\* datetime.strptime(due_on, "%Y-%m-%d").date(): a date or ValueError
strptime(s) == [ok |-> s.kind = "date", day |-> s.day]

\* dateparser.isoparse: a datetime (aware iff the string carries an offset) or ValueError
isoparse(s) == [ok |-> s.kind = "iso", aware |-> s.tz, t |-> s.t]

\* dateparser.parse: the lenient parser, reached only when isoparse raised
lenient_parse(s) == [ok |-> s.kind \in {"iso", "lenient"}, aware |-> s.tz, t |-> s.t]

\* parse_iso_datetime: [some, aware, t]; some = FALSE is Python's None
parse_iso_datetime(s) ==
    IF s.kind = "none" THEN [some |-> FALSE, aware |-> FALSE, t |-> 0]
    ELSE IF isoparse(s).ok
         THEN [some |-> TRUE, aware |-> TRUE, t |-> isoparse(s).t]
    ELSE IF lenient_parse(s).ok
         THEN [some |-> TRUE, aware |-> lenient_parse(s).aware, t |-> lenient_parse(s).t]
    ELSE [some |-> FALSE, aware |-> FALSE, t |-> 0]

\* date.today(): the local calendar date
today(clock, off) == DayOf(clock + off)

\* a predicate that does not look at the completed flag
subtask_is_overdue_ignores_completed(st, clock, off) ==
    IF st.due_on.kind # "none" /\ strptime(st.due_on).ok
    THEN [raised |-> FALSE, val |-> strptime(st.due_on).day < today(clock, off)]
    ELSE IF st.due_at.kind # "none" /\ parse_iso_datetime(st.due_at).some
         THEN IF parse_iso_datetime(st.due_at).aware
              THEN [raised |-> FALSE, val |-> parse_iso_datetime(st.due_at).t < clock]
              ELSE [raised |-> TRUE, val |-> FALSE]
    ELSE [raised |-> FALSE, val |-> FALSE]

\* subtask_is_overdue: [raised, val]; raised is the TypeError of comparing a
\* naive datetime with datetime.now(timezone.utc)
subtask_is_overdue(st, clock, off) ==
    IF st.completed THEN [raised |-> FALSE, val |-> FALSE]
    ELSE IF st.due_on.kind # "none" /\ strptime(st.due_on).ok
         THEN [raised |-> FALSE, val |-> strptime(st.due_on).day < today(clock, off)]
    ELSE IF st.due_at.kind # "none" /\ parse_iso_datetime(st.due_at).some
         THEN IF parse_iso_datetime(st.due_at).aware
              THEN [raised |-> FALSE, val |-> parse_iso_datetime(st.due_at).t < clock]
              ELSE [raised |-> TRUE, val |-> FALSE]
    ELSE [raised |-> FALSE, val |-> FALSE]

\* a scan that looks at the first subtask only
scan_first_only(ss, i, clock, off) ==
    IF Len(ss) = 0 THEN [raised |-> FALSE, val |-> FALSE]
    ELSE [raised |-> subtask_is_overdue(ss[1], clock, off).raised,
          val |-> subtask_is_overdue(ss[1], clock, off).val]

\* the for loop over subtasks in main, with its break: [raised, val]
RECURSIVE scan_subtasks(_, _, _, _)
scan_subtasks(ss, i, clock, off) ==
    IF i > Len(ss) THEN [raised |-> FALSE, val |-> FALSE]
    ELSE IF subtask_is_overdue(ss[i], clock, off).raised THEN [raised |-> TRUE, val |-> FALSE]
    ELSE IF subtask_is_overdue(ss[i], clock, off).val THEN [raised |-> FALSE, val |-> TRUE]
    ELSE scan_subtasks(ss, i + 1, clock, off)

\* ------------------------------------------------------------------ inputs
Range(s) == {s[i] : i \in 1..Len(s)}

Min(a, b) == IF a < b THEN a ELSE b

\* Tags of the workspace by gid: 1 and 2 are both named "Overdue" (Asana does
\* not keep tag names unique), 3 is another tag, 4 is the gid POST /tags gives.
TagNameOf(g) == IF g = 3 THEN "Other" ELSE TagName

WsTagSamples == {<<>>, <<3>>, <<3, 1>>, <<1, 2>>}

TaskTagSamples == {<<>>, <<1>>, <<3>>, <<1, 2>>}

\* Subtasks as the listing returns them (completed, due_on, due_at).
Late == [completed |-> FALSE, due_on |-> DueOnValue("date", 0), due_at |-> NoDueAt]
Fine == [completed |-> FALSE, due_on |-> DueOnValue("date", 2), due_at |-> NoDueAt]
Naive == [completed |-> FALSE, due_on |-> NoDueOn, due_at |-> DueAtValue("lenient", FALSE, 0)]

SubtaskSamples == {Late, Fine, Naive}

SubLists == UNION {[1..n -> SubtaskSamples] : n \in 0..MaxSubs}

TaskLists == {[i \in 1..n |-> i] : n \in 0..NTasks}

Unknown == [known |-> FALSE, v |-> <<>>]
Known(v) == [known |-> TRUE, v |-> v]

\* The Retry-After header of a 429 answer: missing, a number, or not a number.
RetryAfterHeaders ==
    { [present |-> FALSE, numeric |-> FALSE, value |-> 0],
      [present |-> TRUE, numeric |-> TRUE, value |-> 1],
      [present |-> TRUE, numeric |-> FALSE, value |-> 0] }

\* ------------------------------------------------------------ access layer
Req(fn, method, kind, id, page, params, body, text) ==
    [fn |-> fn, method |-> method, kind |-> kind, id |-> id, page |-> page,
     params |-> params, body |-> body, text |-> text]

NoReq == Req("none", "none", "none", 0, 0, FALSE, 0, "")

Get(kind, id, page, params) == Req("api_get", "GET", kind, id, page, params, 0, "")

\* api_post and api_delete both transmit with requests.post
Post(kind, id, body, text) == Req("api_post", "POST", kind, id, 0, FALSE, body, text)
Delete(kind, id, body) == Req("api_delete", "POST", kind, id, 0, FALSE, body, "")

\* int(r.headers.get("Retry-After", "5")): [ok, v]; ok = FALSE is ValueError
retry_after(h) ==
    IF ~h.present THEN [ok |-> TRUE, v |-> DefaultRetryAfter]
    ELSE IF h.numeric THEN [ok |-> TRUE, v |-> h.value]
    ELSE [ok |-> FALSE, v |-> 0]

\* entry of api_get / api_post / api_delete: the first transmission
Issue(r) ==
    /\ call' = r
    /\ phase' = "inflight"
    /\ n429' = 0
    /\ sleeps' = 0
    /\ sent' = 1
    /\ slept' = 0
    /\ wire' = r
    /\ results' = 0
    /\ resp' = [data |-> <<>>, next |-> FALSE]

\* an exception that is caught and dropped: the caller carries on
Raise_swallowed(e) ==
    /\ pc' = pc
    /\ error' = e
    /\ phase' = "returned"
    /\ UNCHANGED <<call, n429, sleeps, sent, slept, wire, results, resp>>

\* an exception nobody catches: the process ends with a traceback
Raise(e) ==
    /\ pc' = "aborted"
    /\ error' = e
    /\ phase' = "idle"
    /\ UNCHANGED <<call, n429, sleeps, sent, slept, wire, results, resp>>

\* a retry loop that transmits again at once, without sleeping
Respond429_no_sleep ==
    /\ phase = "inflight"
    /\ n429 < Max429
    /\ n429' = n429 + 1
    /\ sent' = sent + 1
    /\ wire' = call
    /\ UNCHANGED <<call, phase, sleeps, slept, results, resp, pc, error>>
    /\ UNCHANGED <<clockVars, mainVars, serverVars, cur>>

\* the 429 branch of the retry loop: sleep, then transmit the same request again
Respond429 ==
    /\ phase = "inflight"
    /\ n429 < Max429
    /\ \E h \in RetryAfterHeaders :
         IF retry_after(h).ok
         THEN /\ n429' = n429 + 1
              /\ sleeps' = sleeps + 1
              /\ slept' = retry_after(h).v
              /\ sent' = sent + 1
              /\ wire' = call
              /\ UNCHANGED <<call, phase, results, resp, pc, error>>
         ELSE /\ n429' = n429 + 1
              /\ pc' = "aborted"
              /\ error' = "ValueError"
              /\ phase' = "idle"
              /\ UNCHANGED <<call, sleeps, sent, slept, wire, results, resp>>
    /\ UNCHANGED <<clockVars, mainVars, serverVars, cur>>

\* r.raise_for_status() on a non-2xx answer other than 429, or requests raising
\* on a transport failure
RespondError ==
    /\ phase = "inflight"
    /\ \E e \in {"HTTPError", "ConnectionError"} : Raise(e)
    /\ UNCHANGED <<clockVars, mainVars, serverVars, cur>>

\* return r.json()
Return(body) ==
    /\ phase' = "returned"
    /\ resp' = body
    /\ results' = results + 1
    /\ UNCHANGED <<call, n429, sleeps, sent, slept, wire, pc, error>>

\* ---------------------------------------------------------------- server
PageOf(L, k) == SubSeq(L, (k - 1) * PageSize + 1, Min(k * PageSize, Len(L)))
HasNext(L, k) == k * PageSize < Len(L)
Page(L, k) == [data |-> PageOf(L, k), next |-> HasNext(L, k)]


\* The server answers 200. What it returns is what it holds; a listing nobody
\* has read yet (known = FALSE) is any listing of the bounded input sets.
ServeProject ==
    /\ phase = "inflight" /\ call.kind = "project"
    /\ Return([data |-> <<1>>, next |-> FALSE])
    /\ UNCHANGED <<clockVars, mainVars, serverVars, cur>>

ServeTagsPage ==
    /\ phase = "inflight" /\ call.kind = "ws_tags"
    /\ \E L \in (IF wsTags.known THEN {wsTags.v} ELSE WsTagSamples) :
         /\ wsTags' = Known(L)
         /\ Return(Page(L, call.page))
    /\ UNCHANGED <<clockVars, mainVars, taskTags, subsOf, projectTasks, serving, cur>>

ServeCreateTag ==
    /\ phase = "inflight" /\ call.kind = "tags"
    /\ wsTags' = Known(Append(wsTags.v, 4))
    /\ Return([data |-> <<4>>, next |-> FALSE])
    /\ UNCHANGED <<clockVars, mainVars, taskTags, subsOf, projectTasks, serving, cur>>

ServeTasksPage ==
    /\ phase = "inflight" /\ call.kind = "project_tasks"
    /\ Return(Page(projectTasks, call.page))
    /\ UNCHANGED <<clockVars, mainVars, serverVars, cur>>

\* The first page fixes the listing the walk reads (and, for the record, whether
\* the parent's own due date is past: a field this program never requests).
ServeSubtasksPage ==
    /\ phase = "inflight" /\ call.kind = "subtasks"
    /\ IF call.page = 1
       THEN \E L \in (IF subsOf[call.id].known THEN {subsOf[call.id].v} ELSE SubLists) :
            \E own \in BOOLEAN :
              /\ serving' = L
              /\ cur' = [cur EXCEPT !.own = own]
              /\ Return(Page(L, 1))
       ELSE /\ Return(Page(serving, call.page))
            /\ UNCHANGED <<serving, cur>>
    /\ UNCHANGED <<clockVars, mainVars, wsTags, taskTags, subsOf, projectTasks>>

ServeTask ==
    /\ phase = "inflight" /\ call.kind = "task"
    /\ \E T \in (IF taskTags[call.id].known THEN {taskTags[call.id].v}
                 ELSE {s \in TaskTagSamples : Range(s) \subseteq Range(wsTags.v)}) :
         /\ taskTags' = [taskTags EXCEPT ![call.id] = Known(T)]
         /\ Return([data |-> T, next |-> FALSE])
    /\ UNCHANGED <<clockVars, mainVars, wsTags, subsOf, projectTasks, serving, cur>>

ServeAddTag ==
    /\ phase = "inflight" /\ call.kind = "addTag"
    /\ taskTags' = [taskTags EXCEPT ![call.id] =
                      IF call.body \in Range(@.v) THEN @ ELSE Known(Append(@.v, call.body))]
    /\ Return([data |-> <<>>, next |-> FALSE])
    /\ UNCHANGED <<clockVars, mainVars, wsTags, subsOf, projectTasks, serving, cur>>

ServeRemoveTag ==
    /\ phase = "inflight" /\ call.kind = "removeTag"
    /\ taskTags' = [taskTags EXCEPT ![call.id] =
                      Known(SelectSeq(@.v, LAMBDA g : g # call.body))]
    /\ Return([data |-> <<>>, next |-> FALSE])
    /\ UNCHANGED <<clockVars, mainVars, wsTags, subsOf, projectTasks, serving, cur>>

ServeComment ==
    /\ phase = "inflight" /\ call.kind = "stories"
    /\ Return([data |-> <<>>, next |-> FALSE])
    /\ UNCHANGED <<clockVars, mainVars, serverVars, cur>>


\* ------------------------------------------------------------------- main
None == [some |-> FALSE, gid |-> 0]
Some(g) == [some |-> TRUE, gid |-> g]

NoTags == [n \in {} |-> 0]

Idle ==
    /\ phase' = "idle"
    /\ call' = NoReq
    /\ n429' = 0 /\ sleeps' = 0 /\ sent' = 0 /\ slept' = 0
    /\ wire' = NoReq /\ results' = 0
    /\ resp' = [data |-> <<>>, next |-> FALSE]

NewCur(t, c) ==
    [task |-> t, own |-> FALSE, skipped |-> FALSE, decided |-> FALSE, reported |-> FALSE,
     adds |-> 0, removes |-> 0, comments |-> 0, changed0 |-> c]

\* main, up to the first request: get_project_workspace_gid(PROJECT_GID)
main_start ==
    /\ pc = "start"
    /\ pc' = "workspace"
    /\ Issue(Get("project", 0, 0, TRUE))
    /\ UNCHANGED <<clockVars, error, mainVars, serverVars, cur>>

\* get_project_workspace_gid returns; find_or_create_tag asks for the first page
get_project_workspace_gid ==
    /\ pc = "workspace" /\ phase = "returned"
    /\ pc' = "find_tag"
    /\ Issue(Get("ws_tags", resp.data[1], 1, TRUE))
    /\ UNCHANGED <<clockVars, error, mainVars, serverVars, cur>>

\* the for loop over one page of tags: the gid of the first tag with the name
first_named(data, name) ==
    IF \E i \in 1..Len(data) : TagNameOf(data[i]) = name
    THEN Some(data[CHOOSE i \in 1..Len(data) :
                     /\ TagNameOf(data[i]) = name
                     /\ \A j \in 1..(i - 1) : TagNameOf(data[j]) # name])
    ELSE None

\* list_project_tasks(PROJECT_GID) starts: changed is set once it returned
start_listing ==
    /\ pc' = "list_tasks"
    /\ Issue(Get("project_tasks", 0, 1, TRUE))

\* a lookup that reads the first page of the workspace's tags only
find_or_create_tag_first_page_only ==
    /\ pc = "find_tag" /\ phase = "returned"
    /\ IF first_named(resp.data, TagName).some
       THEN /\ tag_gid' = first_named(resp.data, TagName)
            /\ start_listing
       ELSE IF DRY_RUN
       THEN /\ tag_gid' = None
            /\ start_listing
       ELSE /\ pc' = "create_tag"
            /\ Issue(Post("tags", call.id, 0, ""))
            /\ UNCHANGED tag_gid
    /\ UNCHANGED <<clockVars, error, tasks, idx, subs, overdue_found, current_tags,
                   changed, run, serverVars, cur>>

\* find_or_create_tag: one page of the workspace's tags came back
find_or_create_tag ==
    /\ pc = "find_tag" /\ phase = "returned"
    /\ IF first_named(resp.data, TagName).some
       THEN /\ tag_gid' = first_named(resp.data, TagName)
            /\ start_listing
       ELSE IF resp.next
       THEN /\ pc' = "find_tag"
            /\ Issue(Get("ws_tags", call.id, call.page + 1, FALSE))
            /\ UNCHANGED tag_gid
       ELSE IF DRY_RUN
       THEN /\ tag_gid' = None
            /\ start_listing
       ELSE /\ pc' = "create_tag"
            /\ Issue(Post("tags", call.id, 0, ""))
            /\ UNCHANGED tag_gid
    /\ UNCHANGED <<clockVars, error, tasks, idx, subs, overdue_found, current_tags,
                   changed, run, serverVars, cur>>

\* find_or_create_tag: POST /tags returned the new tag
find_or_create_tag_created ==
    /\ pc = "create_tag" /\ phase = "returned"
    /\ tag_gid' = Some(resp.data[1])
    /\ start_listing
    /\ UNCHANGED <<clockVars, error, tasks, idx, subs, overdue_found, current_tags,
                   changed, run, serverVars, cur>>

\* a listing that keeps the last page only: tasks = res["data"], not extend
list_project_tasks_keeps_last_page ==
    /\ pc = "list_tasks" /\ phase = "returned"
    /\ tasks' = resp.data
    /\ IF resp.next
       THEN /\ pc' = "list_tasks"
            /\ Issue(Get("project_tasks", 0, call.page + 1, FALSE))
       ELSE /\ pc' = "loop"
            /\ Idle
    /\ changed' = 0
    /\ idx' = 0
    /\ UNCHANGED <<clockVars, error, tag_gid, subs, overdue_found, current_tags,
                   run, serverVars, cur>>

\* list_project_tasks: one page of the project's tasks came back
list_project_tasks ==
    /\ pc = "list_tasks" /\ phase = "returned"
    /\ tasks' = tasks \o resp.data
    /\ IF resp.next
       THEN /\ pc' = "list_tasks"
            /\ Issue(Get("project_tasks", 0, call.page + 1, FALSE))
       ELSE /\ pc' = "loop"
            /\ Idle
    /\ changed' = 0
    /\ idx' = 0
    /\ UNCHANGED <<clockVars, error, tag_gid, subs, overdue_found, current_tags,
                   run, serverVars, cur>>

\* for t in tasks: the next task's get_task_subtasks, or the summary
main_for ==
    /\ pc = "loop"
    /\ IF idx + 1 > Len(tasks)
       THEN /\ pc' = "done"
            /\ Idle
            /\ UNCHANGED <<idx, subs, overdue_found, current_tags, cur>>
       ELSE /\ pc' = "subtasks"
            /\ idx' = idx + 1
            /\ subs' = <<>>
            /\ overdue_found' = FALSE
            /\ current_tags' = NoTags
            /\ Issue(Get("subtasks", tasks[idx + 1], 1, TRUE))
            /\ cur' = NewCur(tasks[idx + 1], changed)
    /\ UNCHANGED <<clockVars, error, tag_gid, tasks, changed, run, serverVars>>

\* a get_task_subtasks that returns after its first page, next_page or not
get_task_subtasks_first_page_only ==
    /\ pc = "subtasks" /\ phase = "returned"
    /\ subs' = subs \o resp.data
    /\ IF subs' = <<>>
       THEN /\ pc' = "loop"
            /\ Idle
            /\ cur' = [cur EXCEPT !.skipped = TRUE]
            /\ UNCHANGED <<overdue_found, error>>
       ELSE IF scan_subtasks(subs', 1, now, offset).raised
       THEN /\ Raise("TypeError")
            /\ UNCHANGED <<overdue_found, cur>>
       ELSE /\ overdue_found' = scan_subtasks(subs', 1, now, offset).val
            /\ pc' = "task_tags"
            /\ Issue(Get("task", call.id, 0, TRUE))
            /\ UNCHANGED <<cur, error>>
    /\ UNCHANGED <<clockVars, tag_gid, tasks, idx, current_tags, changed, run, serverVars>>

\* a main without "if not subtasks: continue"
get_task_subtasks_no_skip ==
    /\ pc = "subtasks" /\ phase = "returned"
    /\ subs' = subs \o resp.data
    /\ IF resp.next
       THEN /\ pc' = "subtasks"
            /\ Issue(Get("subtasks", call.id, call.page + 1, FALSE))
            /\ UNCHANGED <<overdue_found, cur, error>>
       ELSE IF scan_subtasks(subs', 1, now, offset).raised
       THEN /\ Raise("TypeError")
            /\ UNCHANGED <<overdue_found, cur>>
       ELSE /\ overdue_found' = scan_subtasks(subs', 1, now, offset).val
            /\ pc' = "task_tags"
            /\ Issue(Get("task", call.id, 0, TRUE))
            /\ UNCHANGED <<cur, error>>
    /\ UNCHANGED <<clockVars, tag_gid, tasks, idx, current_tags, changed, run, serverVars>>

\* get_task_subtasks: one page came back; after the last one, main's
\* "if not subtasks: continue", the scan for an overdue subtask and get_task_tags
get_task_subtasks ==
    /\ pc = "subtasks" /\ phase = "returned"
    /\ subs' = subs \o resp.data
    /\ IF resp.next
       THEN /\ pc' = "subtasks"
            /\ Issue(Get("subtasks", call.id, call.page + 1, FALSE))
            /\ UNCHANGED <<overdue_found, cur, error>>
       ELSE IF subs' = <<>>
       THEN /\ pc' = "loop"
            /\ Idle
            /\ cur' = [cur EXCEPT !.skipped = TRUE]
            /\ UNCHANGED <<overdue_found, error>>
       ELSE IF scan_subtasks(subs', 1, now, offset).raised
       THEN /\ Raise("TypeError")
            /\ UNCHANGED <<overdue_found, cur>>
       ELSE /\ overdue_found' = scan_subtasks(subs', 1, now, offset).val
            /\ pc' = "task_tags"
            /\ Issue(Get("task", call.id, 0, TRUE))
            /\ UNCHANGED <<cur, error>>
    /\ UNCHANGED <<clockVars, tag_gid, tasks, idx, current_tags, changed, run, serverVars>>

\* get_task_tags: {t["name"]: t["gid"] for t in tags}; a later tag of the same
\* name replaces an earlier one
get_task_tags(data) ==
    [n \in {TagNameOf(data[i]) : i \in 1..Len(data)} |->
        data[CHOOSE i \in 1..Len(data) :
               /\ TagNameOf(data[i]) = n
               /\ \A j \in (i + 1)..Len(data) : TagNameOf(data[j]) # n]]

has_tag(tags) == TagName \in DOMAIN tags

\* a comparison that marks whenever a subtask is overdue, tagged or not
transition_always_marks(found, tagged) ==
    IF found THEN "mark"
    ELSE IF tagged THEN "clear"
    ELSE "none"

\* a comparison that never marks
transition_never_marks(found, tagged) ==
    IF ~found /\ tagged THEN "clear" ELSE "none"

\* the if / elif / else of main on overdue_found and has_tag
transition(found, tagged) ==
    IF found /\ ~tagged THEN "mark"
    ELSE IF ~found /\ tagged THEN "clear"
    ELSE "none"

\* an add_comment that does not look at DRY_RUN
add_comment_posts(text) ==
    /\ pc' = "comment"
    /\ Issue(Post("stories", cur.task, 0, text))
    /\ cur' = [cur EXCEPT !.decided = TRUE, !.reported = TRUE, !.comments = @ + 1]
    /\ UNCHANGED changed

\* add_comment(task_gid, text), then changed += 1
add_comment(text) ==
    IF DRY_RUN
    THEN /\ changed' = changed + 1
         /\ pc' = "loop"
         /\ Idle
         /\ cur' = [cur EXCEPT !.decided = TRUE, !.reported = TRUE]
    ELSE /\ pc' = "comment"
         /\ Issue(Post("stories", cur.task, 0, text))
         /\ cur' = [cur EXCEPT !.decided = TRUE, !.reported = TRUE, !.comments = @ + 1]
         /\ UNCHANGED changed

\* main: get_task_tags returned; compare and start the transition
main_reconcile ==
    /\ pc = "task_tags" /\ phase = "returned"
    /\ current_tags' = get_task_tags(resp.data)
    /\ LET act == transition(overdue_found, has_tag(current_tags'))
       IN IF act = "mark"
          THEN IF tag_gid.some /\ ~DRY_RUN
               THEN /\ pc' = "add_tag"
                    /\ Issue(Post("addTag", cur.task, tag_gid.gid, ""))
                    /\ cur' = [cur EXCEPT !.decided = TRUE, !.reported = TRUE, !.adds = @ + 1]
                    /\ UNCHANGED changed
               ELSE add_comment("overdue")
          ELSE IF act = "clear"
          THEN IF tag_gid.some /\ ~DRY_RUN
               THEN /\ pc' = "remove_tag"
                    /\ Issue(Delete("removeTag", cur.task, current_tags'[TagName]))
                    /\ cur' = [cur EXCEPT !.decided = TRUE, !.reported = TRUE, !.removes = @ + 1]
                    /\ UNCHANGED changed
               ELSE add_comment("resolved")
          ELSE /\ pc' = "loop"
               /\ Idle
               /\ cur' = [cur EXCEPT !.decided = TRUE]
               /\ UNCHANGED changed
    /\ UNCHANGED <<clockVars, error, tag_gid, tasks, idx, subs, overdue_found, run, serverVars>>

\* a main that counts the task before its comment is posted
main_comment_counts_first ==
    /\ pc \in {"add_tag", "remove_tag"} /\ phase = "returned"
    /\ pc' = "comment"
    /\ changed' = changed + 1
    /\ Issue(Post("stories", cur.task, 0, IF pc = "add_tag" THEN "overdue" ELSE "resolved"))
    /\ cur' = [cur EXCEPT !.comments = @ + 1]
    /\ UNCHANGED <<clockVars, error, tag_gid, tasks, idx, subs, overdue_found,
                   current_tags, run, serverVars>>

\* add_tag_to_task / remove_tag_from_task returned: add_comment follows
main_comment ==
    /\ pc \in {"add_tag", "remove_tag"} /\ phase = "returned"
    /\ pc' = "comment"
    /\ Issue(Post("stories", cur.task, 0, IF pc = "add_tag" THEN "overdue" ELSE "resolved"))
    /\ cur' = [cur EXCEPT !.comments = @ + 1]
    /\ UNCHANGED <<clockVars, error, mainVars, serverVars>>

\* add_comment returned: changed += 1, end of the loop body
main_changed ==
    /\ pc = "comment" /\ phase = "returned"
    /\ changed' = changed + 1
    /\ pc' = "loop"
    /\ Idle
    /\ UNCHANGED <<clockVars, error, tag_gid, tasks, idx, subs, overdue_found,
                   current_tags, run, serverVars, cur>>

\* ------------------------------------------------------------ specification
InitMain ==
    /\ now = 2 /\ offset = 0
    /\ pc = "start" /\ error = "none"
    /\ call = NoReq /\ phase = "idle"
    /\ n429 = 0 /\ sleeps = 0 /\ sent = 0 /\ slept = 0
    /\ wire = NoReq /\ results = 0
    /\ resp = [data |-> <<>>, next |-> FALSE]
    /\ tag_gid = None /\ tasks = <<>> /\ idx = 0 /\ subs = <<>>
    /\ overdue_found = FALSE /\ current_tags = NoTags /\ changed = 0
    /\ run = 1
    /\ serving = <<>>
    /\ cur = NewCur(0, 0)

\* One run of main against a project nobody has read yet.
Init ==
    /\ InitMain
    /\ DRY_RUN \in BOOLEAN
    /\ projectTasks \in TaskLists
    /\ wsTags = Unknown
    /\ taskTags = [t \in 1..NTasks |-> Unknown]
    /\ subsOf = [t \in 1..NTasks |-> Unknown]

Server ==
    \/ ServeProject \/ ServeTagsPage \/ ServeCreateTag \/ ServeTasksPage
    \/ ServeSubtasksPage \/ ServeTask \/ ServeAddTag \/ ServeRemoveTag \/ ServeComment
    \/ Respond429 \/ RespondError

Main ==
    \/ main_start \/ get_project_workspace_gid \/ find_or_create_tag
    \/ find_or_create_tag_created \/ list_project_tasks \/ main_for
    \/ get_task_subtasks \/ main_reconcile \/ main_comment \/ main_changed

Next == Main \/ Server

Spec == Init /\ [][Next]_vars

\* A second run of the process: main() starts again, the server keeps its data.
main_rerun ==
    /\ pc = "done" /\ run = 1
    /\ run' = 2
    /\ pc' = "start"
    /\ tag_gid' = None /\ tasks' = <<>> /\ idx' = 0 /\ changed' = 0
    /\ cur' = NewCur(0, 0)
    /\ UNCHANGED <<clockVars, error, apiVars, subs, overdue_found, current_tags, serverVars>>

\* Two runs in succession, dry-run disabled, against a project whose tasks,
\* subtasks and tags are fixed before the first run and changed by nobody else.
InitTwice ==
    /\ InitMain
    /\ DRY_RUN = FALSE
    /\ projectTasks \in TaskLists
    /\ wsTags \in {Known(L) : L \in WsTagSamples}
    /\ taskTags \in [1..NTasks -> {Known(T) : T \in TaskTagSamples}]
    /\ \A t \in 1..NTasks : Range(taskTags[t].v) \subseteq Range(wsTags.v)
    /\ subsOf \in [1..NTasks -> {Known(L) : L \in SubLists}]
    /\ \A t \in 1..NTasks : t > Len(projectTasks) =>
           taskTags[t] = Known(<<>>) /\ subsOf[t] = Known(<<>>)

NextTwice == Next \/ main_rerun

SpecTwice == InitTwice /\ [][NextTwice]_vars

\* The 2xx answers of the server, by request.
Serve2xx ==
    \/ ServeProject \/ ServeTagsPage \/ ServeCreateTag \/ ServeTasksPage
    \/ ServeSubtasksPage \/ ServeTask \/ ServeAddTag \/ ServeRemoveTag \/ ServeComment

\* One run in which the interpreter keeps executing main (a handler that can
\* run does run, time.sleep returns) and a request that stays unanswered is
\* answered 2xx in the end; 429 answers and failures remain possible.
SpecLive == Init /\ [][Next]_vars /\ WF_vars(Main) /\ WF_vars(Serve2xx)

\* The predicate on its own: one subtask record of any shape, at any instant,
\* on a machine in any time zone.
Days == 0..MaxDay
Instants == 0..(2 * MaxDay + 1)
Offsets == (0 - MaxOffset)..MaxOffset

DueOnValues ==
    {NoDueOn, DueOnValue("bad", 0)} \cup {DueOnValue("date", d) : d \in Days}

DueAtValues ==
    {NoDueAt, DueAtValue("bad", FALSE, 0)}
      \cup {DueAtValue(k, z, t) : k \in {"iso", "lenient"}, z \in BOOLEAN, t \in Instants}

SubtaskRecords ==
    [completed : BOOLEAN, due_on : DueOnValues, due_at : DueAtValues]

InitPred ==
    /\ now \in Instants /\ offset \in Offsets
    /\ DRY_RUN = FALSE
    /\ pc = "evaluate" /\ error = "none"
    /\ call = NoReq /\ phase = "idle"
    /\ n429 = 0 /\ sleeps = 0 /\ sent = 0 /\ slept = 0
    /\ wire = NoReq /\ results = 0
    /\ resp = [data |-> <<>>, next |-> FALSE]
    /\ tag_gid = None /\ tasks = <<>> /\ idx = 0
    /\ subs \in {<<st>> : st \in SubtaskRecords}
    /\ overdue_found = FALSE /\ current_tags = NoTags /\ changed = 0
    /\ run = 1
    /\ projectTasks = <<>>
    /\ wsTags = Unknown
    /\ taskTags = [t \in 1..NTasks |-> Unknown]
    /\ subsOf = [t \in 1..NTasks |-> Unknown]
    /\ serving = <<>>
    /\ cur = NewCur(0, 0)

\* subtask_is_overdue(st) called once: its value, or the TypeError it raised
evaluate_subtask ==
    /\ pc = "evaluate"
    /\ IF subtask_is_overdue(subs[1], now, offset).raised
       THEN /\ pc' = "aborted"
            /\ error' = "TypeError"
            /\ UNCHANGED overdue_found
       ELSE /\ pc' = "evaluated"
            /\ overdue_found' = subtask_is_overdue(subs[1], now, offset).val
            /\ UNCHANGED error
    /\ UNCHANGED <<clockVars, apiVars, tag_gid, tasks, idx, subs, current_tags,
                   changed, run, serverVars, cur>>

NextPred == evaluate_subtask

SpecPred == InitPred /\ [][NextPred]_vars

\* ------------------------------------------------------------------ claims

\* C1: with dry-run disabled, a second run that follows a completed first run on
\* an unchanged project issues no addTag, removeTag or comment request and
\* reports a mutation count of 0.
C1_SecondRunIssuesNothing ==
    run = 2 =>
        /\ call.kind \notin {"addTag", "removeTag", "stories"}
        /\ changed = 0

Names(T) == {TagNameOf(T[i]) : i \in 1..Len(T)}

\* C3 as stated: every task of the listing, also one with no subtasks, that is
\* not overdue and carries the tag gets removeTag, a comment and a count, so
\* that no not-overdue task carries the tag when the run completes.
C3_ClearsEveryStaleTag ==
    /\ (pc = "loop" /\ idx >= 1 /\ ~overdue_found
        /\ (IF cur.skipped THEN TagName \in Names(taskTags[cur.task].v)
                           ELSE has_tag(current_tags)))
          => (cur.removes = 1 /\ cur.comments = 1 /\ changed = cur.changed0 + 1)
    /\ pc = "done" =>
          \A i \in 1..Len(tasks) :
              (~\E k \in 1..Len(subsOf[tasks[i]].v) :
                    subtask_is_overdue(subsOf[tasks[i]].v[k], now, offset).val)
                 => TagName \notin Names(taskTags[tasks[i]].v)

\* C4: in a non-dry run a task marked overdue and not carrying the tag gets one
\* addTag with the resolved tag, one comment, and one more in the count.
C4_MarkOnce ==
    ~DRY_RUN =>
        /\ cur.adds <= 1 /\ cur.comments <= 1
        /\ call.kind = "addTag" =>
              tag_gid.some /\ call.body = tag_gid.gid /\ call.id = cur.task
        /\ (cur.decided /\ overdue_found /\ ~has_tag(current_tags)) =>
              /\ cur.adds = 1 /\ cur.removes = 0
              /\ pc \in {"add_tag", "comment", "loop", "done", "aborted"}
              /\ pc = "comment" => call.text = "overdue" /\ call.id = cur.task
              /\ pc \in {"loop", "done"} =>
                    /\ cur.comments = 1
                    /\ changed = cur.changed0 + 1
                    /\ tag_gid.gid \in Range(taskTags[cur.task].v)

C4_Witness ==
    /\ ~DRY_RUN /\ pc = "loop" /\ cur.decided
    /\ overdue_found /\ ~has_tag(current_tags)
    /\ cur.adds = 1 /\ cur.comments = 1 /\ changed = cur.changed0 + 1

\* C5: a task whose desired state equals its observed state gets no addTag, no
\* removeTag and no comment, and leaves the count as it was.
C5_NoActionOnMatch ==
    (cur.decided /\ (overdue_found <=> has_tag(current_tags))) =>
        /\ cur.adds = 0 /\ cur.removes = 0 /\ cur.comments = 0
        /\ ~cur.reported
        /\ changed = cur.changed0
        /\ pc \in {"loop", "done"}
        /\ call = NoReq
        /\ has_tag(current_tags) <=> TagName \in Names(taskTags[cur.task].v)

C5_Witness ==
    /\ ~DRY_RUN /\ pc = "loop" /\ cur.decided
    /\ overdue_found /\ has_tag(current_tags)

\* C6: with DRY_RUN set nothing is ever posted, the server's tags stay as they
\* were, every mismatch is reported and counted, and a workspace without the
\* tag leaves tag_gid None and the run going.
C6_DryRunSendsNoMutation ==
    DRY_RUN =>
        /\ call.method # "POST" /\ wire.method # "POST"
        /\ pc \notin {"create_tag", "add_tag", "remove_tag", "comment"}
        /\ cur.adds = 0 /\ cur.removes = 0 /\ cur.comments = 0
        /\ 4 \notin Range(wsTags.v)
        /\ \A t \in 1..NTasks : taskTags[t].v \in TaskTagSamples
        /\ (cur.decided /\ pc \in {"loop", "done"}) =>
              IF overdue_found <=> has_tag(current_tags)
              THEN changed = cur.changed0 /\ ~cur.reported
              ELSE changed = cur.changed0 + 1 /\ cur.reported
        /\ (pc \in {"list_tasks", "loop", "subtasks", "task_tags", "done"}
            /\ TagName \notin Names(wsTags.v)) => ~tag_gid.some
        /\ error \in {"none", "TypeError"} \/ call.method = "GET"

C6_Witness ==
    /\ DRY_RUN /\ pc = "done" /\ ~tag_gid.some
    /\ cur.decided /\ overdue_found /\ changed = Len(tasks) /\ changed > 0

\* C7 as stated: a 429 is never surfaced as an exception; each one is followed
\* by a sleep (of 5 seconds when Retry-After is missing or not a number).
C7_RateLimitAlwaysAbsorbed ==
    /\ error # "ValueError"
    /\ sleeps = n429
    /\ slept \in {0, 1, DefaultRetryAfter}

\* C8: a call that got n 429 answers and then a 2xx has slept n times, has
\* transmitted the same request n + 1 times and returns one result, no error.
C8_RetryCounts ==
    /\ phase = "inflight" =>
          sleeps = n429 /\ sent = n429 + 1 /\ results = 0 /\ wire = call
    /\ phase = "returned" =>
          /\ sleeps = n429 /\ sent = n429 + 1 /\ results = 1 /\ wire = call
          /\ error = "none"

C8_Witness ==
    phase = "returned" /\ n429 = Max429 /\ sleeps = Max429 /\ call.method = "POST"

\* C9: a failed request (any answer that is neither 2xx nor 429, or a transport
\* failure) ends the run at once: nothing is sent, examined, counted or changed
\* afterwards, and the summary is never reached.
C9_FailFast ==
    /\ [](error # "none" => pc = "aborted" /\ phase = "idle")
    /\ [](pc = "done" => error = "none")
    /\ [][error' # "none" =>
             /\ sent' = sent /\ wire' = wire /\ call' = call
             /\ idx' = idx /\ changed' = changed
             /\ taskTags' = taskTags /\ wsTags' = wsTags]_vars

C9_Witness ==
    /\ error = "HTTPError" /\ pc = "aborted"
    /\ call.kind = "addTag" /\ idx < Len(tasks)

\* a due value no strict parser reads: no well-formed due_on, and a due_at that
\* is no ISO-8601 timestamp
Malformed(st) ==
    /\ st.due_on.kind # "date"
    /\ st.due_at.kind \in {"lenient", "bad"}

\* C10 as stated: on a malformed due value the predicate returns false and
\* raises nothing, so the run never ends on it.
C10_MalformedDueIsNotOverdue ==
    /\ error # "TypeError"
    /\ \A i \in 1..Len(subs) :
          Malformed(subs[i]) =>
              subtask_is_overdue(subs[i], now, offset) = [raised |-> FALSE, val |-> FALSE]

\* C11: a completed record is never overdue, whatever its due_on and due_at
\* are (past, today, future, absent, malformed): the predicate returns false.
C11_CompletedIsNeverOverdue ==
    (pc # "evaluate" /\ subs[1].completed) =>
        pc = "evaluated" /\ ~overdue_found /\ error = "none"

\* a completed record with a past calendar date and a zone-less due_at
C11_Witness ==
    /\ pc = "evaluated" /\ subs[1].completed
    /\ subs[1].due_on.kind = "date" /\ subs[1].due_on.day < DayOf(now)
    /\ subs[1].due_at.kind = "lenient" /\ ~subs[1].due_at.tz

\* C12 as stated: an incomplete record whose due value is a calendar date is
\* overdue iff that date is strictly before today's date in UTC; a date equal
\* to today (UTC) is not overdue.
C12_DateBeforeTodayUTC ==
    (pc # "evaluate" /\ ~subs[1].completed /\ subs[1].due_on.kind = "date") =>
        /\ pc = "evaluated"
        /\ overdue_found <=> subs[1].due_on.day < DayOf(now)

\* C13 as stated: an incomplete record that carries a due instant (an ISO-8601
\* due_at), with or without a due_on beside it, is overdue iff that instant is
\* strictly before the current instant in UTC.
C13_InstantBeforeNowUTC ==
    (pc # "evaluate" /\ ~subs[1].completed /\ subs[1].due_at.kind = "iso") =>
        /\ pc = "evaluated"
        /\ overdue_found <=> subs[1].due_at.t < now

\* the subtask listing of the current parent has been read to its last page
\* and main has gone on to aggregate it
Aggregated ==
    \/ pc \in {"task_tags", "add_tag", "remove_tag", "comment"}
    \/ pc \in {"loop", "done"} /\ idx >= 1
    \/ error = "TypeError"

\* C14 as stated: for every parent the aggregated result is true iff at least
\* one of its subtasks is incomplete and satisfies the overdue predicate; it
\* is false when none does and when the parent has no subtasks.
C14_AggregateIsAnyOverdueSubtask ==
    Aggregated =>
        (overdue_found <=>
            \E i \in 1..Len(subs) :
                ~subs[i].completed /\ subtask_is_overdue(subs[i], now, offset).val)

\* the paged listings and the batches of the first k pages of a listing, in order
ListingKinds == {"project_tasks", "subtasks", "ws_tags"}

RECURSIVE PagesUpTo(_, _)
PagesUpTo(L, k) == IF k = 0 THEN <<>> ELSE PagesUpTo(L, k - 1) \o PageOf(L, k)

\* the step after this one asks for the next page of the listing under walk
AsksNextPage ==
    /\ call'.kind = call.kind /\ call'.id = call.id
    /\ call'.page = call.page + 1
    /\ phase' = "inflight"

\* what every walk does: parameters on the first request only, a later request
\* only as the follow-up of a response that had a next-page pointer, and the
\* collection equal to the batches received so far, in order
WalkRequests ==
    /\ call'.kind \in ListingKinds =>
          /\ call'.params <=> call'.page = 1
          /\ wire' = call'
    /\ (call' # call /\ call'.kind \in ListingKinds /\ call'.page > 1) =>
          phase = "returned" /\ resp.next /\ AsksNextPage
    /\ pc' = "list_tasks" => tasks' = PagesUpTo(projectTasks', call'.page - 1)
    /\ pc' \in {"loop", "subtasks", "task_tags", "add_tag", "remove_tag", "comment", "done"}
          => tasks' = projectTasks'
    /\ pc' = "subtasks" =>
          subs' = IF call'.page = 1 THEN <<>> ELSE PagesUpTo(serving', call'.page - 1)
    /\ Aggregated' => subs' = serving'

\* the walk of a listing of kind k goes on iff the response had a next-page pointer
StopsAtLastPage(k) ==
    (call.kind = k /\ phase = "returned" /\ call' # call) => (resp.next <=> AsksNextPage)

\* C15 as stated: every paged listing (project tasks, subtasks, workspace tags)
\* sends the parameters on the first request only, follows the next-page
\* pointer, stops exactly when a response has none, and returns the
\* concatenation of all batches in response order.
C15_EveryWalkStopsAtLastPage ==
    [][/\ WalkRequests
       /\ \A k \in ListingKinds : StopsAtLastPage(k)]_vars

\* C15, amended: the above for the project task and the subtask listing; the
\* workspace tag walk returns no collection and goes on iff the page just read
\* holds no tag of the wanted name and has a next-page pointer.
C15_WalkStopsAtLastPageOrTagFound ==
    [][/\ WalkRequests
       /\ \A k \in {"project_tasks", "subtasks"} : StopsAtLastPage(k)
       /\ (call.kind = "ws_tags" /\ phase = "returned" /\ call' # call) =>
             /\ AsksNextPage <=> (resp.next /\ ~first_named(resp.data, TagName).some)
             /\ first_named(resp.data, TagName).some =>
                   tag_gid' = first_named(resp.data, TagName) /\ call'.kind = "project_tasks"]_vars

\* three walks of more than one page each are behind: the tag found on the
\* second page of the workspace's tags, a full task listing, a full subtask listing
C15_Witness ==
    /\ pc = "task_tags"
    /\ wsTags.v = <<3, 1>> /\ tag_gid = Some(1)
    /\ Len(tasks) = NTasks /\ tasks = projectTasks
    /\ Len(subs) = MaxSubs /\ subs = serving
    /\ NTasks > PageSize /\ MaxSubs > PageSize

\* list_project_tasks has returned: every page of the project's task listing
\* has been received and appended
TasksListed ==
    /\ pc \notin {"start", "workspace", "find_tag", "create_tag", "list_tasks"}
    /\ tasks = projectTasks

\* get_task_subtasks has returned for the current parent with a listing that
\* is not empty: every page of it has been received and appended
SubtasksListed ==
    /\ TasksListed
    /\ idx \in 1..Len(tasks) /\ cur.task = tasks[idx]
    /\ subs = serving /\ subs # <<>>

\* the calls on one task that follow its subtask listing, and the mutating ones
TaskCalls == {"task", "addTag", "removeTag", "stories"}

\* no decision and no mutation yet for the parent whose subtasks are being listed
Undecided ==
    /\ ~cur.decided /\ ~cur.reported
    /\ cur.adds = 0 /\ cur.removes = 0 /\ cur.comments = 0
    /\ changed = cur.changed0

\* C16 as stated: no subtask fetch, no overdue evaluation and no mutating call
\* of any kind before the last page of the project's task listing is in, and
\* for each parent no decision or mutation before the last page of its
\* subtask listing is in.
C16_NothingBeforeCompleteListing ==
    /\ (call.kind = "subtasks" \/ call.method = "POST") => TasksListed
    /\ (call.kind \in TaskCalls \/ cur.decided \/ error = "TypeError") => SubtasksListed
    /\ pc \in {"list_tasks", "subtasks"} => Undecided

\* C16, amended: the same for every call on a task (subtask fetch, tag read,
\* addTag, removeTag, comment); the POST /tags of the tag lookup is a mutating
\* call that is made before the task listing has even been requested.
C16_TaskCallsAfterCompleteListing ==
    /\ call.kind = "subtasks" =>
          TasksListed /\ idx \in 1..Len(tasks) /\ call.id = tasks[idx]
    /\ (call.kind \in TaskCalls \/ cur.decided \/ error = "TypeError") =>
          SubtasksListed /\ (call.kind \in TaskCalls => call.id = tasks[idx])
    /\ pc \in {"list_tasks", "subtasks"} => Undecided
    /\ call.kind = "tags" => tasks = <<>> /\ idx = 0 /\ ~DRY_RUN

\* an addTag on the wire for the last task of a listing of several pages, its
\* subtask listing of several pages read to the end
C16_Witness ==
    /\ pc = "add_tag" /\ phase = "inflight"
    /\ idx = NTasks /\ NTasks > PageSize
    /\ Len(subs) = MaxSubs /\ MaxSubs > PageSize
    /\ SubtasksListed

\* positions of main inside find_or_create_tag, and after it has returned
InLookup == {"find_tag", "create_tag"}
AfterLookup == {"list_tasks", "loop", "subtasks", "task_tags", "add_tag", "remove_tag",
                "comment", "done"}

\* C17: the tag lookup runs once per run and is over before the first task is
\* examined; it returns the gid of an existing tag of the wanted name whenever
\* some page of the workspace's tags holds one, and sends the creating POST at
\* most once, and only when no page held the name.
C17_FindOrCreateOnce ==
    /\ [](call.kind \in {"ws_tags", "tags"} =>
            /\ pc \in InLookup \cup {"aborted"}
            /\ tasks = <<>> /\ idx = 0 /\ ~tag_gid.some)
    /\ [](pc \in AfterLookup =>
            /\ wsTags.known
            /\ tag_gid = (IF DRY_RUN /\ ~\E g \in Range(wsTags.v) : TagNameOf(g) = TagName
                          THEN None ELSE first_named(wsTags.v, TagName))
            /\ (\E g \in Range(wsTags.v) \ {4} : TagNameOf(g) = TagName) =>
                  4 \notin Range(wsTags.v) /\ tag_gid.gid \in Range(wsTags.v) \ {4})
    /\ [][/\ (pc' = "find_tag" /\ pc # "find_tag") => pc = "workspace"
          /\ (pc' = "workspace" /\ pc # "workspace") => pc = "start"
          /\ pc' = "start" => pc = "start"
          /\ (pc' = "create_tag" /\ pc # "create_tag") =>
                /\ pc = "find_tag" /\ ~DRY_RUN /\ ~resp.next
                /\ ~\E g \in Range(wsTags.v) : TagNameOf(g) = TagName
          /\ (call'.kind = "tags" /\ call.kind # "tags") =>
                pc' = "create_tag" /\ pc = "find_tag"
          /\ (pc \in InLookup /\ pc' \notin InLookup \cup {"aborted"}) =>
                pc' = "list_tasks" /\ call'.kind = "project_tasks"
          /\ pc \in AfterLookup => tag_gid' = tag_gid /\ wsTags' = wsTags]_vars

\* the first task is under examination with the tag the lookup created, the
\* workspace's one page of tags holding no tag of the name before
C17_Witness ==
    /\ pc = "subtasks" /\ idx = 1
    /\ tag_gid = Some(4) /\ wsTags.v = <<3, 4>>

\* C18 as stated: a run in which no request fails other than by 429, and every
\* request gets finitely many 429 answers, reaches the final summary; and a
\* 429 answer never raises and never makes the run go on: it is followed by
\* the same request again and by nothing else, however often it comes.
C18_TerminatesUnlessRateLimitedForever ==
    /\ ([](error \notin {"HTTPError", "ConnectionError"}) => <>(pc = "done"))
    /\ [][n429' > n429 =>
             /\ error' = "none" /\ pc' = pc
             /\ call' = call /\ wire' = call /\ phase' = "inflight"]_vars

\* C19: a task whose subtask listing is empty is skipped: no GET /tasks/{id}
\* for it, no addTag, no removeTag, no comment, the count as it was, whatever
\* its own due date and whatever tags it carries.
C19_EmptyListingIsSkipped ==
    /\ cur.skipped =>
          /\ pc \in {"loop", "done"} /\ call = NoReq /\ phase = "idle"
          /\ subs = <<>> /\ serving = <<>>
          /\ Undecided
          /\ ~taskTags[cur.task].known
    /\ (call.kind \in TaskCalls \/ cur.decided) => subs # <<>> /\ ~cur.skipped
    /\ (pc \in {"loop", "done"} /\ idx >= 1 /\ subs = <<>>) => cur.skipped

\* the second task had no subtasks and a past due date of its own; the first
\* was marked, and the count still is the one the first task left
C19_Witness ==
    /\ ~DRY_RUN /\ pc = "loop" /\ idx = 2
    /\ cur.skipped /\ cur.own
    /\ changed = 1 /\ cur.changed0 = 1
    /\ ~taskTags[cur.task].known

\* the tag call of the current task has succeeded: the server holds its effect
TagChanged ==
    /\ cur.adds + cur.removes = 1
    /\ cur.adds = 1 => tag_gid.gid \in Range(taskTags[cur.task].v)
    /\ cur.removes = 1 => current_tags[TagName] \notin Range(taskTags[cur.task].v)

\* C20: in a non-dry run the comment of a task is posted only after its addTag
\* or removeTag returned; a failed tag call leaves the task without comment
\* and uncounted; a failed comment call leaves the tag changed, the task
\* uncounted and the run aborted.
C20_TagThenCommentThenCount ==
    /\ []((~DRY_RUN /\ call.kind \in {"addTag", "removeTag"}) =>
            /\ cur.comments = 0 /\ changed = cur.changed0
            /\ pc \in {"add_tag", "remove_tag", "aborted"})
    /\ []((~DRY_RUN /\ call.kind = "stories") =>
            /\ TagChanged /\ cur.comments = 1 /\ changed = cur.changed0
            /\ pc \in {"comment", "aborted"}
            /\ error # "none" => pc = "aborted")
    /\ [][~DRY_RUN =>
            /\ (call'.kind = "stories" /\ call.kind # "stories") =>
                  /\ call.kind \in {"addTag", "removeTag"} /\ phase = "returned"
                  /\ call'.id = call.id
            /\ changed' # changed =>
                  /\ changed' = changed + 1
                  /\ call.kind = "stories" /\ phase = "returned" /\ error' = "none"]_vars

\* the comment call failed after addTag had succeeded: tag on the task, task
\* not counted, run over
C20_Witness ==
    /\ ~DRY_RUN /\ pc = "aborted" /\ error = "HTTPError"
    /\ call.kind = "stories" /\ cur.adds = 1
    /\ tag_gid.gid \in Range(taskTags[cur.task].v)
    /\ changed = cur.changed0

====
